---- MODULE Spec2Model ----
(***************************************************************************)
(* A model of the NodeLogger class of src/src/logger.ts: the colour        *)
(* converters, the label registry, the message formatter, the render       *)
(* dispatch of log() and the file sink with its timer-driven rotation.     *)
(*                                                                         *)
(* Text is modelled as a sequence of tokens.  A token is one character     *)
(* (a one-character string; "ESC" stands for the character \x1b) or a      *)
(* run of characters whose content no operation looks into ("<timestamp>", *)
(* "<callerLine>", "<text48>", ...), with its length given by TokenBytes.  *)
(***************************************************************************)
EXTENDS Integers, Sequences, FiniteSets, TLC

VARIABLES
    env,             \* what isItBrowser() and isItNode() answer in this process
    options,         \* this.options
    phase,           \* "new", "ready", "threw" (constructor), "crashed", "pure"
    MAPPED_LABEL,    \* this.MAPPED_LABEL: label -> colour
    logStream,       \* this.logStream: the sink the logger references
    orphans,         \* sinks still open that the logger no longer references
    pendingUnlinks,  \* fs.unlink calls whose callback has not run yet
    lastLog,         \* what the last log() call did
    probe            \* a pure function's input and result

vars == <<env, options, phase, MAPPED_LABEL, logStream, orphans,
          pendingUnlinks, lastLog, probe>>

----------------------------------------------------------------------------
(* Text *)

Digit == <<"0", "1", "2", "3", "4", "5", "6", "7", "8", "9">>

IsDigit(c) == \E d \in 1..10 : Digit[d] = c

DigitValue(c) == (CHOOSE d \in 1..10 : Digit[d] = c) - 1

\* `${n}` for a non-negative integer n: its decimal digits.
RECURSIVE NumberToString(_)
NumberToString(n) ==
    IF n < 10 THEN <<Digit[n + 1]>>
    ELSE NumberToString(n \div 10) \o <<Digit[(n % 10) + 1]>>

\* Number(s) for a string of decimal digits.
RECURSIVE Number(_)
Number(s) ==
    IF s = <<>> THEN 0
    ELSE Number(SubSeq(s, 1, Len(s) - 1)) * 10 + DigitValue(s[Len(s)])

\* s.split(';')
RECURSIVE Split(_)
Split(s) ==
    IF \A i \in 1..Len(s) : s[i] # ";" THEN <<s>>
    ELSE LET i == CHOOSE k \in 1..Len(s) :
                      s[k] = ";" /\ \A j \in 1..(k - 1) : s[j] # ";"
         IN  <<SubSeq(s, 1, i - 1)>> \o Split(SubSeq(s, i + 1, Len(s)))

LowerCase == <<"a", "b", "c", "d", "e", "f", "g", "h", "i", "j", "k", "l", "m",
               "n", "o", "p", "q", "r", "s", "t", "u", "v", "w", "x", "y", "z">>
UpperCase == <<"A", "B", "C", "D", "E", "F", "G", "H", "I", "J", "K", "L", "M",
               "N", "O", "P", "Q", "R", "S", "T", "U", "V", "W", "X", "Y", "Z">>

\* label.toUpperCase(), character by character.
toUpperCase(s) ==
    [i \in 1..Len(s) |->
        IF \E k \in 1..26 : LowerCase[k] = s[i]
        THEN UpperCase[CHOOSE k \in 1..26 : LowerCase[k] = s[i]]
        ELSE s[i]]

\* A function's result: ok with its value, or the message of the Error it
\* throws (value is then a filler of the value's type).
Ok(v) == [ok |-> TRUE, value |-> v, error |-> ""]
Throw(msg, filler) == [ok |-> FALSE, value |-> filler, error |-> msg]

----------------------------------------------------------------------------
(* Colour space converter *)

baseColors ==
    << [R |-> 0,   G |-> 0,   B |-> 0],
       [R |-> 128, G |-> 0,   B |-> 0],
       [R |-> 0,   G |-> 128, B |-> 0],
       [R |-> 128, G |-> 128, B |-> 0],
       [R |-> 0,   G |-> 0,   B |-> 128],
       [R |-> 128, G |-> 0,   B |-> 128],
       [R |-> 0,   G |-> 128, B |-> 128],
       [R |-> 192, G |-> 192, B |-> 192],
       [R |-> 128, G |-> 128, B |-> 128],
       [R |-> 255, G |-> 0,   B |-> 0],
       [R |-> 0,   G |-> 255, B |-> 0],
       [R |-> 255, G |-> 255, B |-> 0],
       [R |-> 0,   G |-> 0,   B |-> 255],
       [R |-> 255, G |-> 0,   B |-> 255],
       [R |-> 0,   G |-> 255, B |-> 255],
       [R |-> 255, G |-> 255, B |-> 255] >>

NoColor == [R |-> 0, G |-> 0, B |-> 0]

\* ansiToRgb(code): Ok(colour), or the Error thrown for a code above 255.
ansiToRgb(code) ==
    IF code < 16 THEN Ok(baseColors[code + 1])
    ELSE IF code < 232 THEN
        LET c == code - 16
        IN  Ok([R |-> (c \div 36) * 51,
                G |-> ((c % 36) \div 6) * 51,
                B |-> (c % 6) * 51])
    ELSE IF code < 256 THEN
        LET gray == (code - 232) * 10 + 8
        IN  Ok([R |-> gray, G |-> gray, B |-> gray])
    ELSE Throw("Invalid ANSI color code", NoColor)

\* The table rgbToAnsi builds first: ansiColors[i + 1] is ansiToRgb(i).
ansiColors == [i \in 1..256 |-> ansiToRgb(i - 1).value]

\* Math.pow(dR, 2) + Math.pow(dG, 2) + Math.pow(dB, 2).  The code compares the
\* square roots; on integers up to 3 * 255^2 the square root in double
\* precision is strictly increasing, so the comparison of the sums is the same.
distance2(a, b) ==
    (a.R - b.R) * (a.R - b.R) + (a.G - b.G) * (a.G - b.G) + (a.B - b.B) * (a.B - b.B)

\* Before the scan: closestIndex = 0, smallestDistance = Number.MAX_VALUE
\* (any is TRUE while smallestDistance still is that value, which no distance
\* reaches).
ScanStart == [closestIndex |-> 0, smallestDistance |-> 0, any |-> TRUE]

\* The loop body of rgbToAnsi at index i.
scanStep(color, i, st) ==
    IF st.any \/ distance2(ansiColors[i + 1], color) < st.smallestDistance
    THEN [closestIndex |-> i,
          smallestDistance |-> distance2(ansiColors[i + 1], color),
          any |-> FALSE]
    ELSE st

\* The loop of rgbToAnsi over the indices lo..hi in increasing order: the
\* first half of them, then the second half from the state the first left.
\* (That state is bound as a set's element so that it is computed before the
\* second half starts; the halving keeps the evaluation shallow.)
RECURSIVE scan(_, _, _, _)
scan(color, lo, hi, st) ==
    IF lo = hi THEN scanStep(color, lo, st)
    ELSE CHOOSE r \in {scan(color, ((lo + hi) \div 2) + 1, hi, half) :
                          half \in {scan(color, lo, (lo + hi) \div 2, st)}} : TRUE

\* rgbToAnsi with the ties going to the last index.
rgbToAnsiTiesLast(color) ==
    CHOOSE i \in 0..(Len(ansiColors) - 1) :
        \A j \in 0..(Len(ansiColors) - 1) :
            \/ distance2(ansiColors[i + 1], color) < distance2(ansiColors[j + 1], color)
            \/ /\ distance2(ansiColors[i + 1], color) = distance2(ansiColors[j + 1], color)
               /\ j <= i

rgbToAnsi(color) == scan(color, 0, Len(ansiColors) - 1, ScanStart).closestIndex

----------------------------------------------------------------------------
(* The escape parser.  The regular expression of ansiEscapeToRgb is         *)
(*     ESC \[ (\d+) (;\d+)? (;\d+)* m                                      *)
(* and match() finds its leftmost match.  Every quantifier is greedy and a  *)
(* digit run or a ";digits" group that stops early is followed by a         *)
(* character no alternative accepts, so backtracking never finds a second   *)
(* parse: group 1 is the whole first digit run, group 2 the first ";digits" *)
(* group, group 3 the LAST of the groups after it (a repeated group keeps   *)
(* its last iteration).                                                     *)

\* The first index after the run of digits that starts at q.
RECURSIVE DigitRun(_, _)
DigitRun(s, q) ==
    IF q <= Len(s) /\ IsDigit(s[q]) THEN DigitRun(s, q + 1) ELSE q

\* The successive ";digits" groups from q on, each as <<first, last>>.
RECURSIVE Groups(_, _)
Groups(s, q) ==
    IF q <= Len(s) /\ s[q] = ";" /\ DigitRun(s, q + 1) > q + 1
    THEN <<<<q, DigitRun(s, q + 1) - 1>>>> \o Groups(s, DigitRun(s, q + 1))
    ELSE <<>>

MatchEnd(s, p) ==
    LET e1 == DigitRun(s, p + 2)
        gs == Groups(s, e1)
    IN  IF gs = <<>> THEN e1 ELSE gs[Len(gs)][2] + 1

MatchAt(s, p) ==
    /\ p + 1 <= Len(s)
    /\ s[p] = "ESC"
    /\ s[p + 1] = "["
    /\ DigitRun(s, p + 2) > p + 2
    /\ MatchEnd(s, p) <= Len(s)
    /\ s[MatchEnd(s, p)] = "m"

\* match.slice(1).filter(Boolean).join(''): the captured groups, joined.
codesString(s, p) ==
    LET e1 == DigitRun(s, p + 2)
        gs == Groups(s, e1)
        g1 == SubSeq(s, p + 2, e1 - 1)
        g2 == IF Len(gs) >= 1 THEN SubSeq(s, gs[1][1], gs[1][2]) ELSE <<>>
        g3 == IF Len(gs) >= 2 THEN SubSeq(s, gs[Len(gs)][1], gs[Len(gs)][2])
              ELSE <<>>
    IN  g1 \o g2 \o g3

NoAnsiColorResult == [color |-> NoColor, isBackground |-> FALSE]

\* The first index at which the expression matches, 0 when there is none.
FirstMatch(s) ==
    IF \A p \in 1..Len(s) : ~MatchAt(s, p) THEN 0
    ELSE CHOOSE q \in 1..Len(s) : MatchAt(s, q) /\ \A r \in 1..(q - 1) : ~MatchAt(s, r)

\* codesString.split(';').map(Number)
NumberAll(parts) == [i \in 1..Len(parts) |-> Number(parts[i])]

\* The result for a palette index, or ansiToRgb's Error.
paletteResult(rgb, isBackground) ==
    IF rgb.ok THEN Ok([color |-> rgb.value, isBackground |-> isBackground])
    ELSE Throw(rgb.error, NoAnsiColorResult)

\* The branches of ansiEscapeToRgb with any second code taken as the
\* palette selector.
codesToRgbAnySelector(codes) ==
    IF Len(codes) = 1 /\ codes[1] >= 30 /\ codes[1] <= 37
    THEN paletteResult(ansiToRgb(codes[1] - 30), FALSE)
    ELSE IF Len(codes) = 1 /\ codes[1] >= 40 /\ codes[1] <= 47
    THEN paletteResult(ansiToRgb(codes[1] - 40), TRUE)
    ELSE IF Len(codes) = 3 /\ (codes[1] = 38 \/ codes[1] = 48)
    THEN paletteResult(ansiToRgb(codes[3]), codes[1] = 48)
    ELSE Throw("Unsupported ANSI escape sequence", NoAnsiColorResult)

\* The branches of ansiEscapeToRgb on the codes of a sequence that matched.
codesToRgb(codes) ==
    IF Len(codes) = 1 /\ codes[1] >= 30 /\ codes[1] <= 37
    THEN paletteResult(ansiToRgb(codes[1] - 30), FALSE)
    ELSE IF Len(codes) = 1 /\ codes[1] >= 40 /\ codes[1] <= 47
    THEN paletteResult(ansiToRgb(codes[1] - 40), TRUE)
    ELSE IF Len(codes) = 3 /\ (codes[1] = 38 \/ codes[1] = 48) /\ codes[2] = 5
    THEN paletteResult(ansiToRgb(codes[3]), codes[1] = 48)
    ELSE Throw("Unsupported ANSI escape sequence", NoAnsiColorResult)

ansiEscapeToRgbAt(ansi, p) ==
    IF p = 0 THEN Throw("Invalid ANSI escape sequence", NoAnsiColorResult)
    ELSE codesToRgb(NumberAll(Split(codesString(ansi, p))))

\* ansiEscapeToRgb(ansi): Ok({color, isBackground}), or the Error thrown.
ansiEscapeToRgb(ansi) == ansiEscapeToRgbAt(ansi, FirstMatch(ansi))

----------------------------------------------------------------------------
(* Colour specifications and the two renderers.  A COLOR is                 *)
(*   [tag |-> "named", name |-> a key of Color],                            *)
(*   [tag |-> "ansi",  ansiCode |-> an escape sequence], or                 *)
(*   [tag |-> "rgb",   R, G, B, isBackground].                              *)

Named(name) == [tag |-> "named", name |-> name]
Ansi(code) == [tag |-> "ansi", ansiCode |-> code]
Rgb(r, g, b, bg) == [tag |-> "rgb", R |-> r, G |-> g, B |-> b, isBackground |-> bg]

Sgr(n) == <<"ESC", "[">> \o NumberToString(n) \o <<"m">>

\* The Color table of ./constants/colors: each name's escape sequence.
Color ==
    [name \in {"BLACK", "RED", "GREEN", "YELLOW", "BLUE", "CYAN", "WHITE",
               "YELLOWBG", "REDBG", "RESET"} |->
        CASE name = "BLACK"    -> Sgr(30)
          [] name = "RED"      -> Sgr(31)
          [] name = "GREEN"    -> Sgr(32)
          [] name = "YELLOW"   -> Sgr(33)
          [] name = "BLUE"     -> Sgr(34)
          [] name = "CYAN"     -> Sgr(36)
          [] name = "WHITE"    -> Sgr(37)
          [] name = "REDBG"    -> Sgr(41)
          [] name = "YELLOWBG" -> Sgr(43)
          [] name = "RESET"    -> Sgr(0)]

\* getColorStringForNode: never parses, never throws.
getColorStringForNode(mappedLabelColor) ==
    IF mappedLabelColor.tag = "ansi" THEN mappedLabelColor.ansiCode
    ELSE IF mappedLabelColor.tag = "rgb" THEN
        (IF mappedLabelColor.isBackground
         THEN <<"ESC", "[", "4", "8", ";", "2", ";">>
         ELSE <<"ESC", "[", "3", "8", ";", "2", ";">>)
        \o NumberToString(mappedLabelColor.R) \o <<";">>
        \o NumberToString(mappedLabelColor.G) \o <<";">>
        \o NumberToString(mappedLabelColor.B) \o <<"m">>
    ELSE Color[mappedLabelColor.name]

\* `${isBackground ? 'background' : 'color'}: rgb(${R}, ${G}, ${B});`
cssRgb(isBackground, color) ==
    (IF isBackground
     THEN <<"b", "a", "c", "k", "g", "r", "o", "u", "n", "d">>
     ELSE <<"c", "o", "l", "o", "r">>)
    \o <<":", " ", "r", "g", "b", "(">>
    \o NumberToString(color.R) \o <<",", " ">>
    \o NumberToString(color.G) \o <<",", " ">>
    \o NumberToString(color.B) \o <<")", ";">>

cssOfParsed(ansiToRgbResult) ==
    IF ansiToRgbResult.ok
    THEN Ok(cssRgb(ansiToRgbResult.value.isBackground, ansiToRgbResult.value.color))
    ELSE Throw(ansiToRgbResult.error, <<>>)

\* getColorStringForBrowser: Ok(css), or the Error the parser throws.
getColorStringForBrowser(mappedLabelColor) ==
    IF mappedLabelColor.tag = "rgb"
    THEN Ok(cssRgb(mappedLabelColor.isBackground, mappedLabelColor))
    ELSE cssOfParsed(ansiEscapeToRgb(IF mappedLabelColor.tag = "ansi"
                                     THEN mappedLabelColor.ansiCode
                                     ELSE Color[mappedLabelColor.name]))

----------------------------------------------------------------------------
(* Bounds of the model *)

\* options.logRotationInterval of the modelled logger: the period of the
\* rotation timer and the number bytesWritten is compared with.
Threshold == 100
\* No log call is made that would pass this many bytes to one sink.
MaxBytes == 210
\* At most this many fs.unlink calls are in flight.
MaxPendingUnlinks == 2
\* No rotation starts on a sink with this id or a later one.
MaxStreams == 2
\* The longest customLabels array tried.
MaxCustomLabels == 2

----------------------------------------------------------------------------
(* Labels, messages, options *)

L_error    == <<"e", "r", "r", "o", "r">>
L_warning  == <<"w", "a", "r", "n", "i", "n", "g">>
L_info     == <<"i", "n", "f", "o">>
L_success  == <<"s", "u", "c", "c", "e", "s", "s">>
L_log      == <<"l", "o", "g">>
L_notify   == <<"n", "o", "t", "i", "f", "y">>
L_alert    == <<"a", "l", "e", "r", "t">>
L_critical == <<"c", "r", "i", "t", "i", "c", "a", "l">>
L_INFO     == <<"I", "N", "F", "O">>
L_custom   == <<"c", "u", "s", "t", "o", "m">>
L_unique   == <<"u", "n", "i", "q", "u", "e">>
L_insideFunction ==
    <<"i", "n", "s", "i", "d", "e", "F", "u", "n", "c", "t", "i", "o", "n">>
L_odd      == <<"o", "d", "d">>

\* The initial value of the MAPPED_LABEL field.
DefaultLabels ==
    (L_error :> Named("RED")) @@ (L_warning :> Named("YELLOW")) @@
    (L_info :> Named("CYAN")) @@ (L_success :> Named("GREEN")) @@
    (L_log :> Named("WHITE")) @@ (L_notify :> Named("BLUE")) @@
    (L_alert :> Named("YELLOWBG")) @@ (L_critical :> Named("REDBG"))

\* A customLabels entry; a field that is absent (or empty) is <<>> for the
\* label and [tag |-> "missing"] for the colour: both are falsy in the code.
Entry(label, color) == [label |-> label, color |-> color]
Missing == [tag |-> "missing"]

\* The customLabels of the example program, and a label whose colour is the
\* raw sequence ESC[99m.
ExampleLabels ==
    << Entry(L_custom, Ansi(<<"ESC", "[", "3", "8", ";", "5", ";", "9", "m">>)),
       Entry(L_unique, Named("RED")),
       Entry(L_insideFunction, Rgb(255, 204, 229, TRUE)),
       Entry(L_odd, Ansi(<<"ESC", "[", "9", "9", "m">>)) >>

\* The length in bytes of a token: a run of characters, or one character.
TokenBytes(t) ==
    CASE t = "<timestamp>"  -> 25
      [] t = "<callerLine>" -> 40
      [] t = "<text48>"     -> 48
      [] t = "<text99>"     -> 99
      [] t = "<json48>"     -> 48
      [] OTHER              -> 1

RECURSIVE ByteLength(_)
ByteLength(s) ==
    IF s = <<>> THEN 0 ELSE TokenBytes(Head(s)) + ByteLength(Tail(s))

\* The values passed as a message: a string, an object JSON.stringify
\* serializes, an object with a cycle, and a Symbol.
Messages ==
    { [type |-> "string",   text |-> <<"<text48>">>],
      [type |-> "string",   text |-> <<"<text99>">>],
      [type |-> "object",   text |-> <<"<json48>">>],
      [type |-> "circular", text |-> <<>>],
      [type |-> "symbol",   text |-> <<>>] }

\* typeof message === "object"
IsObject(message) == message.type \in {"object", "circular"}

ObjectObject ==
    <<"[", "o", "b", "j", "e", "c", "t", " ", "O", "b", "j", "e", "c", "t", "]">>

\* `${message}`: the string itself, "[object Object]" for an object, and a
\* TypeError for a Symbol.
TemplateString(message) ==
    CASE message.type = "string" -> Ok(message.text)
      [] message.type = "symbol" ->
             Throw("TypeError: Cannot convert a Symbol value to a string", <<>>)
      [] OTHER -> Ok(ObjectObject)

\* JSON.stringify(message) for an object: its JSON text, or the TypeError
\* thrown for a cycle.
JSONstringify(message) ==
    IF message.type = "circular"
    THEN Throw("TypeError: Converting circular structure to JSON", <<>>)
    ELSE Ok(message.text)

\* What getCallerName() can return.
CallerNames == { <<"<callerLine>">>, <<"U", "n", "k", "n", "o", "w", "n">> }

Toggles ==
    [printTimestamp : BOOLEAN, printLabelName : BOOLEAN,
     printCallerFunctionLocation : BOOLEAN]

Options(save, custom, t) ==
    [saveLogFile |-> save, logRotationInterval |-> Threshold,
     customLabels |-> custom,
     printTimestamp |-> t.printTimestamp,
     printLabelName |-> t.printLabelName,
     printCallerFunctionLocation |-> t.printCallerFunctionLocation]

AllOff ==
    [printTimestamp |-> FALSE, printLabelName |-> FALSE,
     printCallerFunctionLocation |-> FALSE]

\* The logRotationInterval field's default: 24 * 60 * 60 * 1000.
DefaultLogRotationInterval == 86400000

----------------------------------------------------------------------------
(* The label registry *)

\* One step of updateCustomLabels' forEach that overwrites nothing.
updateOneKeepFirst(mapped, label) ==
    IF label.label = <<>> \/ label.color = Missing THEN mapped
    ELSE IF label.label \in DOMAIN mapped THEN mapped
    ELSE (label.label :> label.color) @@ mapped

\* One step of updateCustomLabels' forEach.
updateOne(mapped, label) ==
    IF label.label = <<>> \/ label.color = Missing THEN mapped
    ELSE (label.label :> label.color) @@ mapped

RECURSIVE updateCustomLabels(_, _)
updateCustomLabels(mapped, customLabels) ==
    IF customLabels = <<>> THEN mapped
    ELSE updateCustomLabels(updateOne(mapped, Head(customLabels)),
                            Tail(customLabels))

----------------------------------------------------------------------------
(* The message formatter *)

\* formatMessage without the caller in the test that adds ": ".
formatMessageNoCallerSeparator(opts, label, caller) ==
    (IF opts.printTimestamp THEN <<"[", "<timestamp>", "]", " ">> ELSE <<>>)
    \o (IF opts.printLabelName
        THEN <<"[">> \o toUpperCase(label) \o <<"]", " ">> ELSE <<>>)
    \o (IF opts.printCallerFunctionLocation
        THEN <<"[", "F", "u", "n", "c", "t", "i", "o", "n", " ">> \o caller
             \o <<"]", " ">>
        ELSE <<>>)
    \o (IF opts.printTimestamp \/ opts.printLabelName
        THEN <<":", " ">> ELSE <<>>)

\* formatMessage(label, message), with the caller getCallerName() returns.
formatMessage(opts, label, caller) ==
    (IF opts.printTimestamp THEN <<"[", "<timestamp>", "]", " ">> ELSE <<>>)
    \o (IF opts.printLabelName
        THEN <<"[">> \o toUpperCase(label) \o <<"]", " ">> ELSE <<>>)
    \o (IF opts.printCallerFunctionLocation
        THEN <<"[", "F", "u", "n", "c", "t", "i", "o", "n", " ">> \o caller
             \o <<"]", " ">>
        ELSE <<>>)
    \o (IF opts.printTimestamp \/ opts.printCallerFunctionLocation
           \/ opts.printLabelName
        THEN <<":", " ">> ELSE <<>>)

----------------------------------------------------------------------------
(* The file sink *)

\* this.logStream before createLogStream has run: undefined.
NoStream ==
    [created |-> FALSE, id |-> 0, path |-> <<>>, ended |-> FALSE,
     bytesWritten |-> 0, queued |-> 0]

\* this.logFile: logDirectory joined with options.logFileName.
logFile == <<"<cwd>", "/", "l", "o", "g", "s", "/", "a", "p", "p", ".", "l", "o", "g">>

\* fs.createWriteStream(this.logFile, {flags: "a"}): an open sink, nothing
\* written through it yet.
createWriteStream(id) ==
    [created |-> TRUE, id |-> id, path |-> logFile, ended |-> FALSE,
     bytesWritten |-> 0, queued |-> 0]

\* The bytes passed to a sink: written to the file, or still queued.
Appended(stream) == stream.bytesWritten + stream.queued

\* The test of checkOptions with the Node probe left out.
BrowserPresent == env.browser

\* The test of the branches of checkOptions and log that leave the file alone.
BrowserOnly == env.browser /\ ~env.node

\* The threshold the timer callback compares bytesWritten with.
rotationInterval(opts) ==
    IF opts.logRotationInterval # 0 THEN opts.logRotationInterval
    ELSE DefaultLogRotationInterval

NoLog ==
    [called |-> FALSE, label |-> <<>>, message |-> "", caller |-> <<>>,
     color |-> Missing, formattedMessage |-> <<>>, console |-> <<>>, threw |-> "",
     saveCalled |-> FALSE, line |-> <<>>, written |-> FALSE,
     writeAfterEnd |-> FALSE]

NoProbe == [fn |-> "none"]

----------------------------------------------------------------------------
(* The constructor *)

\* new NodeLogger(options): checkOptions opens the sink unless the process is
\* a browser only, then merges the custom labels.  Outside Node the file
\* calls (process.cwd, fs) may be missing, and the constructor then throws
\* before it reaches the labels.
Constructor ==
    /\ phase = "new"
    /\ \E fsWorks \in (IF env.node THEN {TRUE} ELSE BOOLEAN) :
         IF options.saveLogFile /\ ~BrowserOnly /\ ~fsWorks
         THEN /\ phase' = "threw"
              /\ UNCHANGED <<MAPPED_LABEL, logStream>>
         ELSE /\ phase' = "ready"
              /\ logStream' = IF options.saveLogFile /\ ~BrowserOnly
                              THEN createWriteStream(0) ELSE logStream
              /\ MAPPED_LABEL' =
                     IF Len(options.customLabels) # 0
                     THEN updateCustomLabels(MAPPED_LABEL, options.customLabels)
                     ELSE MAPPED_LABEL
    /\ UNCHANGED <<env, options, orphans, pendingUnlinks, lastLog, probe>>

----------------------------------------------------------------------------
(* log(label, message) *)

\* saveToFile(formattedMessage, message): the text it hands to
\* this.logStream.write, or the Error thrown before the write.
lineOf(formattedMessage, stringifiedMessage) ==
    IF ~stringifiedMessage.ok THEN stringifiedMessage
    ELSE Ok(formattedMessage \o <<" ">> \o stringifiedMessage.value \o <<"\n">>)

saveToFileLine(formattedMessage, message) ==
    lineOf(formattedMessage,
           IF IsObject(message) THEN JSONstringify(message)
           ELSE TemplateString(message))

\* What a log call in the browser branch prints, or the Error it throws.
browserCall(formattedMessage, decidedColor, text) ==
    IF ~decidedColor.ok THEN Throw(decidedColor.error, <<>>)
    ELSE IF ~text.ok THEN Throw(text.error, <<>>)
    ELSE Ok(<< <<"%", "c", " ">> \o formattedMessage \o <<" ">> \o text.value,
               decidedColor.value >>)

logToBrowser(formattedMessage, mappedLabelColor, message) ==
    browserCall(formattedMessage, getColorStringForBrowser(mappedLabelColor),
                TemplateString(message))

\* How console.log shows a message passed as an argument of its own.
Shown(message) ==
    IF message.type = "string" THEN message.text ELSE <<"<" \o message.type \o ">">>

\* What a log call in the Node branch prints.
logToNode(formattedMessage, mappedLabelColor, message) ==
    << getColorStringForNode(mappedLabelColor), formattedMessage,
       Shown(message), Color["RESET"] >>

\* The branch of log() that is taken: "browser", "node" or "plain".
Target ==
    IF env.browser /\ ~env.node THEN "browser"
    ELSE IF ~env.browser /\ env.node THEN "node"
    ELSE "plain"

\* Whether log() calls saveToFile in the plain branch only.
savesToFilePlainOnly(target) == options.saveLogFile /\ target = "plain"

\* Whether log() calls saveToFile after printing.
savesToFile(target) == options.saveLogFile /\ target # "browser"

\* What the branch of log() that is taken prints, or the Error it throws.
printedBy(target, formattedMessage, mappedLabelColor, message) ==
    CASE target = "browser" ->
             logToBrowser(formattedMessage, mappedLabelColor, message)
      [] target = "node" ->
             Ok(logToNode(formattedMessage, mappedLabelColor, message))
      [] OTHER -> Ok(<<formattedMessage, Shown(message)>>)

\* The state after a log call that has printed `printed` and, when it goes
\* on to saveToFile, has `line` to write.
logEffect(label, message, caller, formattedMessage, mappedLabelColor, printed, line) ==
    LET save == printed.ok /\ savesToFile(Target)
        \* this.logStream.write on undefined is a TypeError
        writes == save /\ line.ok /\ logStream.created
        bytes == IF writes THEN ByteLength(line.value) ELSE 0
    IN  /\ Appended(logStream) + bytes <= MaxBytes
        /\ lastLog' =
              [called |-> TRUE, label |-> label, message |-> message.type,
               caller |-> caller, color |-> mappedLabelColor,
               formattedMessage |-> formattedMessage,
               console |-> printed.value,
               threw |-> IF ~printed.ok THEN printed.error
                         ELSE IF save /\ ~line.ok THEN line.error
                         ELSE IF save /\ ~logStream.created
                         THEN "TypeError: Cannot read properties of undefined"
                         ELSE "",
               saveCalled |-> save,
               line |-> IF writes THEN line.value ELSE <<>>,
               written |-> writes /\ ~logStream.ended,
               writeAfterEnd |-> writes /\ logStream.ended]
        \* write() on an ended sink emits 'error' on the stream; nothing
        \* listens for it, so the process dies of the uncaught error.
        /\ phase' = IF writes /\ logStream.ended THEN "crashed" ELSE phase
        /\ logStream' = IF writes /\ ~logStream.ended
                        THEN [logStream EXCEPT !.queued = @ + bytes]
                        ELSE logStream

logWith(label, message, caller, formattedMessage, mappedLabelColor) ==
    logEffect(label, message, caller, formattedMessage, mappedLabelColor,
              printedBy(Target, formattedMessage, mappedLabelColor, message),
              saveToFileLine(formattedMessage, message))

Log(label, message, caller) ==
    /\ phase = "ready"
    /\ label \in DOMAIN MAPPED_LABEL
    /\ logWith(label, message, caller, formatMessage(options, label, caller),
               MAPPED_LABEL[label])
    /\ UNCHANGED <<env, options, MAPPED_LABEL, orphans, pendingUnlinks, probe>>

----------------------------------------------------------------------------
(* The sink's own progress, the rotation timer, and fs.unlink's callback *)

\* The sink writes what is queued to the file; bytesWritten counts it then.
Flush ==
    /\ phase = "ready"
    /\ logStream.created
    /\ logStream.queued > 0
    /\ logStream' = [logStream EXCEPT !.bytesWritten = @ + logStream.queued,
                                      !.queued = 0]
    /\ UNCHANGED <<env, options, phase, MAPPED_LABEL, orphans, pendingUnlinks,
                   lastLog, probe>>

\* The timer callback's test with ">=" for ">".
rotationDueAtThreshold(stream) == stream.bytesWritten >= rotationInterval(options)

\* The timer callback's test.
rotationDue(stream) == stream.bytesWritten > rotationInterval(options)

\* The setInterval callback of createLogStream; when the test holds it runs
\* rotateLogFile up to the call of fs.unlink: the sink is ended, the deletion
\* is requested, and the callback returns.
Tick ==
    /\ phase = "ready"
    /\ logStream.created
    /\ rotationDue(logStream)
    /\ logStream.id < MaxStreams
    /\ pendingUnlinks < MaxPendingUnlinks
    /\ logStream' = [logStream EXCEPT !.ended = TRUE]
    /\ pendingUnlinks' = pendingUnlinks + 1
    /\ UNCHANGED <<env, options, phase, MAPPED_LABEL, orphans, lastLog, probe>>

\* The callback of fs.unlink, in a later turn: on an error it only reports;
\* otherwise it opens a new sink and makes it this.logStream, whatever state
\* the sink referenced until then is in.
UnlinkDone(err) ==
    /\ phase = "ready"
    /\ pendingUnlinks > 0
    /\ pendingUnlinks' = pendingUnlinks - 1
    /\ IF err
       THEN UNCHANGED <<logStream, orphans>>
       ELSE /\ logStream' = createWriteStream(logStream.id + 1)
            /\ orphans' = IF logStream.ended THEN orphans ELSE orphans + 1
    /\ UNCHANGED <<env, options, phase, MAPPED_LABEL, lastLog, probe>>

----------------------------------------------------------------------------
(* The logger with the example's labels, in every environment, with and     *)
(* without the log file.                                                    *)

Init ==
    /\ env \in [browser : BOOLEAN, node : BOOLEAN]
    /\ options \in {Options(save, ExampleLabels, AllOff) : save \in BOOLEAN}
    /\ phase = "new"
    /\ MAPPED_LABEL = DefaultLabels
    /\ logStream = NoStream
    /\ orphans = 0
    /\ pendingUnlinks = 0
    /\ lastLog = NoLog
    /\ probe = NoProbe

LoggedLabels == {L_info, L_custom, L_insideFunction, L_odd}

Next ==
    \/ Constructor
    \/ \E label \in LoggedLabels, message \in Messages :
           Log(label, message, <<"<callerLine>">>)
    \/ Flush
    \/ Tick
    \/ \E err \in BOOLEAN : UnlinkDone(err)

Spec == Init /\ [][Next]_vars

----------------------------------------------------------------------------
(* The colour converters on their own: every palette index through          *)
(* ansiToRgb and rgbToAnsi, RGB colours through the terminal renderer and   *)
(* the escape parser, and the escape sequences of the two accepted forms.   *)

\* The logger's state while only a pure function is exercised.
NoLogger ==
    /\ env = [browser |-> FALSE, node |-> TRUE]
    /\ options = Options(FALSE, <<>>, AllOff)
    /\ phase = "pure"
    /\ MAPPED_LABEL = DefaultLabels
    /\ logStream = NoStream
    /\ orphans = 0
    /\ pendingUnlinks = 0
    /\ lastLog = NoLog

loggerVars ==
    <<env, options, phase, MAPPED_LABEL, logStream, orphans, pendingUnlinks,
      lastLog>>

\* The values tried for each of R, G and B.
Components == {0, 5, 51, 204, 255}

\* Escape sequences given to the parser directly.
ParsedSequences ==
    { Sgr(31), Sgr(43), Sgr(99), Sgr(0),
      <<"ESC", "[", "3", "8", ";", "5", ";", "9", "m">>,
      <<"ESC", "[", "4", "8", ";", "5", ";", "2", "0", "0", "m">>,
      <<"ESC", "[", "3", "8", ";", "5", ";", "2", "5", "6", "m">>,
      <<"ESC", "[", "3", "8", ";", "5", "m">>,
      <<"r", "e", "d">> }

InitColor ==
    /\ NoLogger
    /\ probe \in
          {[fn |-> "roundTrip", index |-> i, done |-> FALSE, result |-> 0] :
               i \in 0..255}
          \cup
          {[fn |-> "emitParse", color |-> Rgb(r, g, b, bg), done |-> FALSE,
            emitted |-> <<>>, parsed |-> Throw("", NoAnsiColorResult)] :
               r \in Components, g \in Components, b \in Components,
               bg \in BOOLEAN}
          \cup
          {[fn |-> "parse", ansi |-> a, done |-> FALSE,
            parsed |-> Throw("", NoAnsiColorResult)] : a \in ParsedSequences}

\* rgbToAnsi(ansiToRgb(i))
RoundTrip ==
    /\ probe.fn = "roundTrip" /\ ~probe.done
    /\ probe' = [probe EXCEPT !.done = TRUE,
                              !.result = rgbToAnsi(ansiToRgb(probe.index).value)]
    /\ UNCHANGED loggerVars

\* ansiEscapeToRgb(getColorStringForNode(color))
EmitParse ==
    /\ probe.fn = "emitParse" /\ ~probe.done
    /\ probe' = [probe EXCEPT
                    !.done = TRUE,
                    !.emitted = getColorStringForNode(probe.color),
                    !.parsed = ansiEscapeToRgb(getColorStringForNode(probe.color))]
    /\ UNCHANGED loggerVars

\* ansiEscapeToRgb(ansi)
Parse ==
    /\ probe.fn = "parse" /\ ~probe.done
    /\ probe' = [probe EXCEPT !.done = TRUE, !.parsed = ansiEscapeToRgb(probe.ansi)]
    /\ UNCHANGED loggerVars

NextColor == RoundTrip \/ EmitParse \/ Parse

SpecColor == InitColor /\ [][NextColor]_vars

----------------------------------------------------------------------------
(* The palette round trip and the parse of an emitted sequence *)

\* The palette indices whose colour an earlier index has too.
Duplicates == {16, 21, 46, 51, 196, 201, 226, 231, 244}

\* C3 as stated: for every palette index i in 0..255,
\* rgbToAnsi(ansiToRgb(i)) = i.
C3_RoundTripIsIdentity ==
    (probe.fn = "roundTrip" /\ probe.done) => probe.result = probe.index

\* C3 as amended: rgbToAnsi(ansiToRgb(i)) is the lowest palette index that
\* has the colour of i; it is i itself except at the nine indices 16, 21, 46,
\* 51, 196, 201, 226, 231 and 244, whose colour one of the indices 0..15 has
\* too (there the result is that earlier index).
C3_RoundTripIsLowestIndexOfColor ==
    (probe.fn = "roundTrip" /\ probe.done) =>
        /\ probe.result \in 0..probe.index
        /\ ansiToRgb(probe.result) = ansiToRgb(probe.index)
        /\ \A j \in 0..(probe.result - 1) : ansiToRgb(j) # ansiToRgb(probe.index)
        /\ (probe.result # probe.index) <=> (probe.index \in Duplicates)
        /\ (probe.index \in Duplicates) => probe.result \in 0..15

\* Index 196, the cube's (255, 0, 0), has come back as index 9.
C3_Witness ==
    probe.fn = "roundTrip" /\ probe.done /\ probe.index = 196 /\ probe.result = 9

\* C4 as stated: parsing the true-color sequence the terminal renderer emits
\* for an RGB triple and a background flag returns that triple and that flag.
C4_ParseReturnsEmittedColor ==
    (probe.fn = "emitParse" /\ probe.done) =>
        /\ probe.parsed.ok
        /\ probe.parsed.value =
               [color |-> [R |-> probe.color.R, G |-> probe.color.G,
                           B |-> probe.color.B],
                isBackground |-> probe.color.isBackground]

\* The sequence ESC[38;2;r;g;bm or ESC[48;2;r;g;bm of a colour.
TrueColor(c) ==
    <<"ESC", "[">> \o (IF c.isBackground THEN <<"4", "8">> ELSE <<"3", "8">>)
    \o <<";", "2", ";">> \o NumberToString(c.R) \o <<";">> \o NumberToString(c.G)
    \o <<";">> \o NumberToString(c.B) \o <<"m">>

\* C4 as amended: for any RGB triple and background flag the terminal
\* renderer emits ESC[38;2;r;g;bm or ESC[48;2;r;g;bm, and ansiEscapeToRgb
\* rejects that sequence with the Error "Unsupported ANSI escape sequence":
\* it returns no colour for it.
C4_ParseRejectsEmittedTrueColor ==
    (probe.fn = "emitParse" /\ probe.done) =>
        /\ probe.emitted = TrueColor(probe.color)
        /\ ~probe.parsed.ok
        /\ probe.parsed.error = "Unsupported ANSI escape sequence"

\* The background colour (255, 204, 5) has been emitted and parsed.
C4_Witness ==
    /\ probe.fn = "emitParse" /\ probe.done
    /\ probe.color = Rgb(255, 204, 5, TRUE)
    /\ probe.emitted = <<"ESC", "[", "4", "8", ";", "2", ";", "2", "5", "5", ";",
                         "2", "0", "4", ";", "5", "m">>
    /\ ~probe.parsed.ok

----------------------------------------------------------------------------
(* The label registry: a logger in Node, without a log file, constructed    *)
(* with every customLabels array of up to MaxCustomLabels entries.          *)

EntryLabels == {L_info, L_INFO, L_custom, <<>>}
EntryColors == {Named("RED"), Named("BLUE"), Missing}
Entries == {Entry(l, c) : l \in EntryLabels, c \in EntryColors}

RECURSIVE SeqsUpTo(_, _)
SeqsUpTo(S, n) ==
    IF n = 0 THEN {<<>>}
    ELSE SeqsUpTo(S, n - 1)
         \cup {Append(q, x) : q \in {r \in SeqsUpTo(S, n - 1) : Len(r) = n - 1},
                              x \in S}

InitLabels ==
    /\ env = [browser |-> FALSE, node |-> TRUE]
    /\ options \in {Options(FALSE, custom, AllOff) :
                       custom \in SeqsUpTo(Entries, MaxCustomLabels)}
    /\ phase = "new"
    /\ MAPPED_LABEL = DefaultLabels
    /\ logStream = NoStream
    /\ orphans = 0
    /\ pendingUnlinks = 0
    /\ lastLog = NoLog
    /\ probe = NoProbe

NextLabels ==
    \/ Constructor
    \/ \E label \in {L_info, L_INFO, L_custom} :
           Log(label, [type |-> "string", text |-> <<"<text48>">>],
               <<"<callerLine>">>)

SpecLabels == InitLabels /\ [][NextLabels]_vars

\* A label with its upper-case letters replaced by the lower-case ones.
toLowerCase(s) ==
    [i \in 1..Len(s) |->
        IF \E k \in 1..26 : UpperCase[k] = s[i]
        THEN LowerCase[CHOOSE k \in 1..26 : UpperCase[k] = s[i]]
        ELSE s[i]]

\* An entry updateCustomLabels does not skip.
HasBoth(entry) == entry.label # <<>> /\ entry.color # Missing

\* The index of the last entry with both fields whose label satisfies Same,
\* 0 when there is none.
LastEntry(custom, Same(_)) ==
    IF \A i \in 1..Len(custom) : ~(HasBoth(custom[i]) /\ Same(custom[i].label))
    THEN 0
    ELSE CHOOSE i \in 1..Len(custom) :
             /\ HasBoth(custom[i]) /\ Same(custom[i].label)
             /\ \A j \in (i + 1)..Len(custom) :
                    ~(HasBoth(custom[j]) /\ Same(custom[j].label))

----------------------------------------------------------------------------
(* The message formatter: a logger without a log file, in every             *)
(* environment, with every combination of the three print options.          *)

InitFormat ==
    /\ env \in [browser : BOOLEAN, node : BOOLEAN]
    /\ options \in {Options(FALSE, <<>>, t) : t \in Toggles}
    /\ phase = "new"
    /\ MAPPED_LABEL = DefaultLabels
    /\ logStream = NoStream
    /\ orphans = 0
    /\ pendingUnlinks = 0
    /\ lastLog = NoLog
    /\ probe = NoProbe

NextFormat ==
    \/ Constructor
    \/ \E label \in DOMAIN DefaultLabels, caller \in CallerNames :
           Log(label, [type |-> "string", text |-> <<"<text48>">>], caller)

SpecFormat == InitFormat /\ [][NextFormat]_vars

\* The default labels in upper case, written out.
UpperCased ==
    (L_error :> <<"E", "R", "R", "O", "R">>) @@
    (L_warning :> <<"W", "A", "R", "N", "I", "N", "G">>) @@
    (L_info :> <<"I", "N", "F", "O">>) @@
    (L_success :> <<"S", "U", "C", "C", "E", "S", "S">>) @@
    (L_log :> <<"L", "O", "G">>) @@
    (L_notify :> <<"N", "O", "T", "I", "F", "Y">>) @@
    (L_alert :> <<"A", "L", "E", "R", "T">>) @@
    (L_critical :> <<"C", "R", "I", "T", "I", "C", "A", "L">>)

StartsWith(s, prefix) ==
    Len(s) >= Len(prefix) /\ SubSeq(s, 1, Len(prefix)) = prefix

\* s without its first n tokens.
Drop(s, n) == SubSeq(s, n + 1, Len(s))

\* The prefix s is seg, if on, followed by a text that satisfies Rest.
Segment(s, on, seg, Rest(_)) ==
    IF on THEN StartsWith(s, seg) /\ Rest(Drop(s, Len(seg))) ELSE Rest(s)

\* C7: formatMessage returns the enabled segments only, in the order
\* timestamp, upper-cased label, caller, then ": " when a segment is enabled,
\* and the empty string when none is; with all three on and the label info it
\* is "[<timestamp>] [INFO] [Function <caller>] : ".
C7_PrefixSegmentsInOrder ==
    lastLog.called =>
        LET any == \/ options.printTimestamp \/ options.printLabelName
                   \/ options.printCallerFunctionLocation
            End(s) == s = IF any THEN <<":", " ">> ELSE <<>>
            Caller(s) ==
                Segment(s, options.printCallerFunctionLocation,
                        <<"[", "F", "u", "n", "c", "t", "i", "o", "n", " ">>
                        \o lastLog.caller \o <<"]", " ">>, End)
            Label(s) ==
                Segment(s, options.printLabelName,
                        <<"[">> \o UpperCased[lastLog.label] \o <<"]", " ">>, Caller)
        IN  /\ Segment(lastLog.formattedMessage, options.printTimestamp,
                       <<"[", "<timestamp>", "]", " ">>, Label)
            /\ ~any => lastLog.formattedMessage = <<>>
            /\ ( /\ options.printTimestamp /\ options.printLabelName
                 /\ options.printCallerFunctionLocation
                 /\ lastLog.label = L_info )
               => lastLog.formattedMessage =
                      <<"[", "<timestamp>", "]", " ", "[", "I", "N", "F", "O", "]",
                        " ", "[", "F", "u", "n", "c", "t", "i", "o", "n", " ">>
                      \o lastLog.caller \o <<"]", " ", ":", " ">>

\* With only the caller's location printed, a call of logger.warning has the
\* prefix "[Function <callerLine>] : ".
C7_Witness ==
    /\ lastLog.called /\ lastLog.label = L_warning
    /\ ~options.printTimestamp /\ ~options.printLabelName
    /\ options.printCallerFunctionLocation
    /\ lastLog.formattedMessage =
           <<"[", "F", "u", "n", "c", "t", "i", "o", "n", " ", "<callerLine>",
             "]", " ", ":", " ">>

----------------------------------------------------------------------------
(* The file sink and its rotation (specification Spec) *)

\* C1 as stated: with the byte threshold at Threshold, the rotation comes
\* before the byte after the threshold's next is appended: a log call never
\* appends to a sink that has taken more than Threshold bytes already.
C1_RotationBeforeNextByte ==
    [][ ( /\ logStream'.created /\ logStream.created
          /\ logStream'.id = logStream.id
          /\ Appended(logStream') > Appended(logStream) )
        => Appended(logStream) <= Threshold ]_vars

\* C1 as amended: passing the threshold starts no rotation by itself, and
\* log calls keep appending to the same sink.  A rotation cycle starts only
\* in the rotation timer's callback, when more than Threshold bytes have been
\* written through the current sink: the callback ends that sink and requests
\* the deletion of the file.  The new sink is opened only by the deletion's
\* callback, in a later turn and only when the deletion succeeded: at the
\* same path, with nothing written yet.
C1_RotationOnlyAtTimerTick ==
    [][ /\ (logStream.created /\ ~logStream.ended /\ logStream'.ended)
           => /\ logStream.bytesWritten > Threshold
              /\ logStream'.id = logStream.id
              /\ pendingUnlinks' = pendingUnlinks + 1
        /\ (logStream.created /\ logStream'.id # logStream.id)
           => /\ pendingUnlinks' = pendingUnlinks - 1
              /\ logStream'.path = logStream.path
              /\ ~logStream'.ended
              /\ Appended(logStream') = 0
        /\ (logStream.created /\ Appended(logStream') > Appended(logStream))
           => /\ lastLog'.called /\ lastLog'.written
              /\ logStream'.id = logStream.id ]_vars

\* A rotation cycle is complete: the second sink is open, with nothing
\* written through it, and no deletion is in flight.
C1_Witness ==
    /\ logStream.created /\ logStream.id = 1 /\ ~logStream.ended
    /\ Appended(logStream) = 0
    /\ pendingUnlinks = 0 /\ orphans = 0

\* C2: the rotation swap completes within the timer callback's turn, so no
\* log call runs between the end of the old sink and the opening of the new
\* one, and saveToFile never writes to a sink that has been ended.
C2_NoWriteToEndedSink ==
    /\ ~lastLog.writeAfterEnd
    /\ phase # "crashed"

\* C10: for a logger with file persistence, exactly one sink is open and
\* owned by the logger in every state: none is dropped while open, and no
\* second one is opened beside an open one.
OpenSinks ==
    (IF logStream.created /\ ~logStream.ended THEN 1 ELSE 0) + orphans

C10_ExactlyOneOpenSink ==
    (phase \in {"ready", "crashed"} /\ logStream.created) => OpenSinks = 1

\* The part of C10 about dropped sinks alone: the logger never stops
\* referencing a sink that is still open.
C10_NoSinkDroppedOpen == orphans = 0

----------------------------------------------------------------------------
(* The render dispatch of log() (specification Spec) *)

\* The colour of the last call is a raw sequence the parser rejects.
RejectedColor ==
    /\ lastLog.color.tag = "ansi"
    /\ ~ansiEscapeToRgb(lastLog.color.ansiCode).ok

\* C5: a label whose colour is a raw sequence the parser rejects does not
\* make the log call throw in any render target, and the prefix and the
\* message are still printed.
C5_RejectedColorStaysLocal ==
    (lastLog.called /\ lastLog.message = "string" /\ RejectedColor) =>
        /\ lastLog.threw = ""
        /\ lastLog.console # <<>>

\* C8 as stated: with saveLogFile, every log call goes on to the file
\* append, whichever render target is active.
C8_EveryTargetSaves ==
    (lastLog.called /\ options.saveLogFile) => lastLog.saveCalled

\* C8 as amended: with saveLogFile, a log call calls saveToFile after
\* printing in the terminal-like and the plain target, and not in the
\* browser-console-like target, where the constructor opens no sink either;
\* saveToFile passes the line "<prefix> <message>\n" to the sink's write,
\* unless turning the message into text throws.
C8_SavesUnlessBrowserOnly ==
    (lastLog.called /\ options.saveLogFile) =>
        /\ lastLog.saveCalled <=> (Target # "browser")
        /\ (Target = "browser") => (~logStream.created /\ lastLog.line = <<>>)
        /\ (Target # "browser") => logStream.created
        /\ (lastLog.saveCalled /\ lastLog.message = "string") =>
               /\ lastLog.written \/ lastLog.writeAfterEnd
               /\ StartsWith(lastLog.line, lastLog.formattedMessage \o <<" ">>)
               /\ lastLog.line[Len(lastLog.line)] = "\n"
               /\ Len(lastLog.line) = Len(lastLog.formattedMessage) + 3
        /\ (lastLog.written \/ lastLog.writeAfterEnd) <=>
               (lastLog.saveCalled /\ lastLog.message \in {"string", "object"})

\* In the plain target (a browser and Node at once) a call has written its
\* line to the sink.
C8_Witness ==
    /\ lastLog.called /\ options.saveLogFile /\ Target = "plain"
    /\ lastLog.saveCalled /\ lastLog.written

\* C9: a message that cannot be turned into text does not make the log call
\* throw: saveToFile catches the failure and writes a placeholder instead.
C9_SerializationFailureIsCaught ==
    ( /\ lastLog.called /\ lastLog.saveCalled
      /\ lastLog.message \in {"circular", "symbol"} )
    => /\ lastLog.threw = ""
       /\ lastLog.line # <<>>

\* C11: whatever the probes isItBrowser and isItNode answer and whatever
\* saveLogFile is, once construction has completed a log call calls
\* saveToFile only if the constructor opened the log stream: the branch of
\* log() that appends is taken under the same test as the branch of
\* checkOptions that opens the sink, so the write is never attempted on a
\* sink that was never created.
C11_SaveOnlyOnOpenedStream ==
    /\ (phase = "ready") =>
           (logStream.created <=> (options.saveLogFile /\ Target # "browser"))
    /\ lastLog.called =>
           /\ lastLog.saveCalled => logStream.created
           /\ lastLog.threw # "TypeError: Cannot read properties of undefined"

\* Outside both a browser and Node, with saveLogFile, the constructor has
\* opened the sink and a log call has gone on to saveToFile.
C11_Witness ==
    /\ ~env.browser /\ ~env.node /\ options.saveLogFile
    /\ lastLog.called /\ lastLog.saveCalled /\ logStream.created

====
